---- MODULE Spec2Model ----
(***************************************************************************)
(* Model of crates/ra_assists/src/assist_ctx.rs: the assist context        *)
(* (AssistCtx), the registration entry points add_assist and               *)
(* add_assist_group, and the edit accumulator ActionBuilder.               *)
(*                                                                         *)
(* One transformation (an id, a label, a callback) is run through          *)
(* AssistCtx::with_ctx first with should_compute_edit = false and then     *)
(* with should_compute_edit = true, as lines 44-46 of the source describe. *)
(* The callback is foreign code: its calls on the ActionBuilder are the    *)
(* steps taken while pc is inside the callback.                            *)
(***************************************************************************)
EXTENDS Naturals, Sequences, FiniteSets

VARIABLES
    assist,     \* the transformation: which entry point it calls, its id, its label, its callback
    ctx,        \* the AssistCtx of the run in progress
    pc,         \* where the run is: idle, ctx, in_f, in_group_f, in_group_builder
    edit,       \* the ActionBuilder the callback is populating
    actions,    \* the Vec<ActionBuilder> the group callback has produced so far
    hist,       \* the calls made on `edit` since it was default-constructed
    hists,      \* for each builder in `actions`, the calls that were made on it
    before,     \* `edit` as it was before the last call of `hist`
    f_calls,    \* callback invocations of the run in progress
    builds,     \* ActionBuilder::build calls of the run in progress
    runs        \* per mode flag: the outcome of the run with that flag

vars == <<assist, ctx, pc, edit, actions, hist, hists, before, f_calls, builds, runs>>

----------------------------------------------------------------------------
(* Bounds of the model *)

\* offsets (TextUnit) range over 0..MaxPos
MaxPos == 2
\* builder calls the add_assist callback makes
MaxCalls == 2
\* builder calls the add_assist_group callback makes, over all its builders
MaxGroupCalls == 1
\* builders a group callback returns
MaxGroup == 2

----------------------------------------------------------------------------
(* Values *)

\* Option<T>: None is the empty sequence, Some(x) the one-element sequence
None == <<>>
Some(x) == <<x>>

TextUnit == 0..MaxPos
Range(s, e) == [start |-> s, end |-> e]
TextRange == {r \in [start : TextUnit, end : TextUnit] : r.start <= r.end}

\* a String that is a label: its characters
UppercaseChars == {"I", "A"}
Labels == {<<>>, <<"I", "n">>, <<"i", "n">>}
BuilderLabels == {<<"A">>, <<"b">>}
AssistIds == {"inline_local_variable", "auto_import"}

\* a String that is source text: its lines (the empty String has none)
EmptyString == <<>>
Texts == {<<"x">>, <<"{", "  y", "}">>}
ReplaceTexts == {<<"x">>}

\* tokens and nodes of the parsed file; a node carries the tokens before it,
\* nearest first, and the unit-wide tokens under it
Whitespace(t) == [kind |-> "WHITESPACE", text |-> t]
Token(k, t) == [kind |-> k, text |-> t]
SyntaxNodes == {
    [range |-> Range(0, 1), prev |-> <<>>, toks |-> <<"a">>],
    [range |-> Range(1, 2),
     prev |-> <<Whitespace(<<"", "  ">>), Token("IDENT", <<"a">>)>>, toks |-> <<"b">>],
    [range |-> Range(0, 2),
     prev |-> <<Whitespace(<<" ">>), Token("COMMENT", <<"//", "">>), Whitespace(<<"", "    ">>)>>,
     toks |-> <<"a", "b">>] }
OldNodes == {n \in SyntaxNodes : Len(n.toks) = 2}
NewNodes == {[toks |-> t] : t \in {<<"a", "b">>, <<"c", "d">>, <<"c">>}}

----------------------------------------------------------------------------
(* ra_text_edit::TextEditBuilder and the helpers of ra_fmt and ra_syntax::algo *)

AtomTextEdit(range, text) == [delete |-> range, insert |-> text]

TextEditBuilder_default == <<>>
TextEditBuilder_replace(atoms, range, replace_with) ==
    Append(atoms, AtomTextEdit(range, replace_with))
TextEditBuilder_delete(atoms, range) ==
    Append(atoms, AtomTextEdit(range, EmptyString))
TextEditBuilder_insert(atoms, offset, text) ==
    Append(atoms, AtomTextEdit(Range(offset, offset), text))
\* finish freezes the accumulated operations into a TextEdit
TextEditBuilder_finish(atoms) == [atoms |-> atoms]

\* the text after the last newline of the first whitespace token before the
\* node that holds a newline; none when another token with a newline comes first
RECURSIVE leading_indent_from(_)
leading_indent_from(prev) ==
    IF prev = <<>> THEN None
    ELSE LET token == Head(prev) IN
         IF token.kind = "WHITESPACE" /\ Len(token.text) > 1
             THEN Some(token.text[Len(token.text)])
         ELSE IF Len(token.text) > 1 THEN None
         ELSE leading_indent_from(Tail(prev))
leading_indent(node) == leading_indent_from(node.prev)

\* every line after the first is prefixed with the indent
reindent(text, indent) ==
    [i \in 1..Len(text) |-> IF i = 1 THEN text[i] ELSE indent \o text[i]]

RECURSIVE concat(_)
concat(toks) == IF toks = <<>> THEN "" ELSE Head(toks) \o concat(Tail(toks))

\* the structural diff of two trees: nothing when they are equal, the
\* differing children pairwise when the shapes match, the whole node otherwise
RECURSIVE diff_children(_, _, _)
diff_children(old, new, i) ==
    IF i > Len(old.toks) THEN <<>>
    ELSE (IF old.toks[i] = new.toks[i] THEN <<>>
          ELSE <<AtomTextEdit(Range(old.range.start + i - 1, old.range.start + i),
                              <<new.toks[i]>>)>>)
         \o diff_children(old, new, i + 1)
diff(old, new) ==
    IF old.toks = new.toks THEN <<>>
    ELSE IF Len(old.toks) = Len(new.toks) THEN diff_children(old, new, 1)
    ELSE <<AtomTextEdit(old.range, <<concat(new.toks)>>)>>
into_text_edit(replacements, atoms) == atoms \o replacements

----------------------------------------------------------------------------
(* ActionBuilder *)

ActionBuilder_default ==
    [edit |-> TextEditBuilder_default, cursor_position |-> None,
     target |-> None, label |-> None]

label(self, l) == [self EXCEPT !.label = Some(l)]

replace(self, range, replace_with) ==
    [self EXCEPT !.edit = TextEditBuilder_replace(@, range, replace_with)]

\* a replace_node_and_indent that forgets to reindent
replace_node_without_reindent(self, node, replace_with) ==
    replace(self, node.range, replace_with)

replace_node_and_indent(self, node, replace_with) ==
    LET indent == leading_indent(node)
        text == IF indent # None THEN reindent(replace_with, indent[1])
                ELSE replace_with
    IN  replace(self, node.range, text)

\* a delete that loses the start of the range
delete_from_start_of_file(self, range) ==
    [self EXCEPT !.edit = TextEditBuilder_delete(@, Range(0, range.end))]

delete(self, range) == [self EXCEPT !.edit = TextEditBuilder_delete(@, range)]

insert(self, offset, text) ==
    [self EXCEPT !.edit = TextEditBuilder_insert(@, offset, text)]

\* a set_cursor that keeps the first offset it was given
set_cursor_first_wins(self, offset) ==
    IF self.cursor_position = None
    THEN [self EXCEPT !.cursor_position = Some(offset)]
    ELSE self

set_cursor(self, offset) == [self EXCEPT !.cursor_position = Some(offset)]

\* a target that resets the cursor position
target_resets_cursor(self, range) ==
    [self EXCEPT !.target = Some(range), !.cursor_position = None]

target(self, range) == [self EXCEPT !.target = Some(range)]

replace_ast(self, old, new) ==
    [self EXCEPT !.edit = into_text_edit(diff(old, new), @)]

\* a build that drops the override label
build_without_label(self) ==
    [edit |-> TextEditBuilder_finish(self.edit),
     cursor_position |-> self.cursor_position,
     target |-> self.target,
     label |-> None]

build(self) ==
    [edit |-> TextEditBuilder_finish(self.edit),
     cursor_position |-> self.cursor_position,
     target |-> self.target,
     label |-> self.label]

\* the calls a callback can make on a builder, and what each does to it
Calls ==
    [op : {"label"}, label : BuilderLabels]
    \cup [op : {"replace"}, range : TextRange, text : ReplaceTexts]
    \cup [op : {"replace_node_and_indent"}, node : SyntaxNodes, text : Texts]
    \cup [op : {"delete"}, range : TextRange]
    \cup [op : {"insert"}, offset : TextUnit, text : ReplaceTexts]
    \cup [op : {"set_cursor"}, offset : TextUnit]
    \cup [op : {"target"}, range : TextRange]
    \cup [op : {"replace_ast"}, old : OldNodes, new : NewNodes]

Apply(self, c) ==
    CASE c.op = "label" -> label(self, c.label)
      [] c.op = "replace" -> replace(self, c.range, c.text)
      [] c.op = "replace_node_and_indent" -> replace_node_and_indent(self, c.node, c.text)
      [] c.op = "delete" -> delete(self, c.range)
      [] c.op = "insert" -> insert(self, c.offset, c.text)
      [] c.op = "set_cursor" -> set_cursor(self, c.offset)
      [] c.op = "target" -> target(self, c.range)
      [] c.op = "replace_ast" -> replace_ast(self, c.old, c.new)

----------------------------------------------------------------------------
(* AssistCtx: the registration entry points *)

AssistLabel(l, id) == [label |-> l, id |-> id]
Unresolved(l) == [tag |-> "Unresolved", label |-> l]
Resolved(a) == [tag |-> "Resolved", assist |-> a]
ResolvedAssist(l, data) == [label |-> l, action_data |-> data]
Left(x) == [tag |-> "Left", value |-> x]
Right(x) == [tag |-> "Right", value |-> x]

is_uppercase(c) == c \in UppercaseChars

\* line 88: label.label.chars().nth(0).unwrap().is_uppercase(); the unwrap
\* panics on an empty label, the assert on any other first character
label_assert(l) == Len(l.label) > 0 /\ is_uppercase(l.label[1])

\* an add_assist that checks the label only when it computes the edit
add_assist_panics_in_compute_only(self, l) ==
    self.should_compute_edit /\ ~label_assert(l)

\* add_assist stops at line 88, in either mode, when the assertion fails
add_assist_panics(self, l) == ~label_assert(l)

\* an add_assist_group without its assertion
actions_assert_absent(acts) == TRUE

\* line 114: assert!(!actions.is_empty())
actions_assert(acts) == acts # <<>>

\* a registration that ignores the mode flag
should_compute_edit_always(self) == TRUE

should_compute_edit(self) == self.should_compute_edit

\* lines 96 and 98: the Assist add_assist returns, given the builder the callback left
add_assist_value(self, l, builder) ==
    IF should_compute_edit(self)
    THEN Resolved(ResolvedAssist(l, Left(build(builder))))
    ELSE Unresolved(l)

\* a collect that reverses the builders
build_all_reversed(acts) == [i \in 1..Len(acts) |-> build(acts[Len(acts) + 1 - i])]

\* line 120: actions.into_iter().map(ActionBuilder::build).collect()
build_all(acts) == [i \in 1..Len(acts) |-> build(acts[i])]

\* lines 116-125: the Assist add_assist_group returns, given the callback's builders
add_assist_group_value(self, l, acts) ==
    IF should_compute_edit(self)
    THEN Resolved(ResolvedAssist(l, Right(build_all(acts))))
    ELSE Unresolved(l)

----------------------------------------------------------------------------
(* The runs *)

NotRun == [status |-> "not_run", value |-> None, f_calls |-> 0, builds |-> 0]
Returned(v, f, b) == [status |-> "returned", value |-> v, f_calls |-> f, builds |-> b]
Panicked(f, b) == [status |-> "panicked", value |-> None, f_calls |-> f, builds |-> b]

Transformations ==
    [fn : {"add_assist"}, id : AssistIds, label : Labels, n : {1}]
    \cup [fn : {"add_assist_group"}, id : AssistIds, label : Labels, n : 0..MaxGroup]

NoCtx == [should_compute_edit |-> FALSE]

RECURSIVE TotalLen(_)
TotalLen(hs) == IF hs = <<>> THEN 0 ELSE Len(Head(hs)) + TotalLen(Tail(hs))
CallsMade == Len(hist) + TotalLen(hists)

Init ==
    /\ assist \in Transformations
    /\ ctx = NoCtx
    /\ pc = "idle"
    /\ edit = ActionBuilder_default
    /\ actions = <<>>
    /\ hist = <<>>
    /\ hists = <<>>
    /\ before = ActionBuilder_default
    /\ f_calls = 0
    /\ builds = 0
    /\ runs = [m \in BOOLEAN |-> NotRun]

\* with_ctx(db, frange, should_compute_edit, f): the context of a fresh run;
\* the check-only run comes first and the compute run second (lines 44-46)
with_ctx(flag) ==
    /\ pc = "idle"
    /\ runs[flag].status = "not_run"
    /\ flag => runs[FALSE].status # "not_run"
    /\ ctx' = [should_compute_edit |-> flag]
    /\ pc' = "ctx"
    /\ edit' = ActionBuilder_default
    /\ actions' = <<>>
    /\ hist' = <<>>
    /\ hists' = <<>>
    /\ before' = ActionBuilder_default
    /\ f_calls' = 0
    /\ builds' = 0
    /\ UNCHANGED <<assist, runs>>

Finish(outcome) ==
    /\ runs' = [runs EXCEPT ![ctx.should_compute_edit] = outcome]
    /\ pc' = "idle"

\* add_assist up to the callback: lines 87-93, and lines 97-101 in check-only mode
add_assist ==
    /\ pc = "ctx"
    /\ assist.fn = "add_assist"
    /\ LET l == AssistLabel(assist.label, assist.id) IN
       IF add_assist_panics(ctx, l)
       THEN /\ Finish(Panicked(f_calls, builds))
            /\ UNCHANGED <<f_calls>>
       ELSE IF should_compute_edit(ctx)
       THEN /\ pc' = "in_f"
            /\ f_calls' = f_calls + 1
            /\ UNCHANGED <<runs>>
       ELSE /\ Finish(Returned(Some(add_assist_value(ctx, l, edit)), f_calls, builds))
            /\ UNCHANGED <<f_calls>>
    /\ UNCHANGED <<assist, ctx, edit, actions, hist, hists, before, builds>>

\* the callback returns: lines 94-101
add_assist_return ==
    /\ pc = "in_f"
    /\ LET l == AssistLabel(assist.label, assist.id) IN
       Finish(Returned(Some(add_assist_value(ctx, l, edit)), f_calls, builds + 1))
    /\ builds' = builds + 1
    /\ UNCHANGED <<assist, ctx, edit, actions, hist, hists, before, f_calls>>

\* add_assist_group up to the callback: lines 111-113, and lines 124-128 in check-only mode
add_assist_group ==
    /\ pc = "ctx"
    /\ assist.fn = "add_assist_group"
    /\ LET l == AssistLabel(assist.label, assist.id) IN
       IF should_compute_edit(ctx)
       THEN /\ pc' = "in_group_f"
            /\ f_calls' = f_calls + 1
            /\ UNCHANGED <<runs>>
       ELSE /\ Finish(Returned(Some(add_assist_group_value(ctx, l, actions)), f_calls, builds))
            /\ UNCHANGED <<f_calls>>
    /\ UNCHANGED <<assist, ctx, edit, actions, hist, hists, before, builds>>

\* the group callback returns its builders: lines 114-128
add_assist_group_return ==
    /\ pc = "in_group_f"
    /\ Len(actions) = assist.n
    /\ LET l == AssistLabel(assist.label, assist.id) IN
       IF ~actions_assert(actions)
       THEN /\ Finish(Panicked(f_calls, builds))
            /\ UNCHANGED <<builds>>
       ELSE /\ Finish(Returned(Some(add_assist_group_value(ctx, l, actions)),
                               f_calls, builds + Len(actions)))
            /\ builds' = builds + Len(actions)
    /\ UNCHANGED <<assist, ctx, edit, actions, hist, hists, before, f_calls>>

\* inside the group callback: a new builder, ActionBuilder::default()
group_new_builder ==
    /\ pc = "in_group_f"
    /\ Len(actions) < assist.n
    /\ pc' = "in_group_builder"
    /\ edit' = ActionBuilder_default
    /\ hist' = <<>>
    /\ before' = ActionBuilder_default
    /\ UNCHANGED <<assist, ctx, actions, hists, f_calls, builds, runs>>

\* inside the group callback: the builder is moved into the Vec
group_push ==
    /\ pc = "in_group_builder"
    /\ actions' = Append(actions, edit)
    /\ hists' = Append(hists, hist)
    /\ pc' = "in_group_f"
    /\ UNCHANGED <<assist, ctx, edit, hist, before, f_calls, builds, runs>>

\* inside a callback: one call on the builder
builder_call(c) ==
    /\ \/ pc = "in_f" /\ CallsMade < MaxCalls
       \/ pc = "in_group_builder" /\ CallsMade < MaxGroupCalls
    /\ before' = edit
    /\ edit' = Apply(edit, c)
    /\ hist' = Append(hist, c)
    /\ UNCHANGED <<assist, ctx, pc, actions, hists, f_calls, builds, runs>>

Next ==
    \/ \E flag \in BOOLEAN : with_ctx(flag)
    \/ add_assist
    \/ add_assist_return
    \/ add_assist_group
    \/ add_assist_group_return
    \/ group_new_builder
    \/ group_push
    \/ \E c \in Calls : builder_call(c)

Spec == Init /\ [][Next]_vars

----------------------------------------------------------------------------
(* What the callback recorded, read off the calls it made *)

Overlaps(a, b) == ~(a.end <= b.start \/ b.end <= a.start)
Disjoint(atoms) ==
    \A i \in 1..Len(atoms) : \A j \in 1..Len(atoms) :
        i < j => ~Overlaps(atoms[i].delete, atoms[j].delete)

\* the text replace_node_and_indent is to put in place of the node
IndentedText(c) ==
    LET I == leading_indent(c.node) IN
    IF I = None THEN c.text
    ELSE [i \in 1..Len(c.text) |-> IF i = 1 THEN c.text[1] ELSE I[1] \o c.text[i]]

RecordedOf(c) ==
    CASE c.op = "replace" -> <<[delete |-> c.range, insert |-> c.text]>>
      [] c.op = "replace_node_and_indent" ->
            <<[delete |-> c.node.range, insert |-> IndentedText(c)]>>
      [] c.op = "delete" -> <<[delete |-> c.range, insert |-> <<>>]>>
      [] c.op = "insert" ->
            <<[delete |-> [start |-> c.offset, end |-> c.offset], insert |-> c.text]>>
      [] c.op = "replace_ast" -> diff(c.old, c.new)
      [] OTHER -> <<>>

RECURSIVE RecordedAtoms(_)
RecordedAtoms(h) ==
    IF h = <<>> THEN <<>> ELSE RecordedOf(Head(h)) \o RecordedAtoms(Tail(h))

\* the argument of the last call of `op` in h, if any
RECURSIVE LastArg(_, _)
LastArg(h, op) ==
    IF h = <<>> THEN <<>>
    ELSE LET c == h[Len(h)] IN
         IF c.op = op
         THEN <<CASE op = "set_cursor" -> c.offset
                  [] op = "target" -> c.range
                  [] op = "label" -> c.label>>
         ELSE LastArg(SubSeq(h, 1, Len(h) - 1), op)

RecordedAction(h) ==
    [edit |-> [atoms |-> RecordedAtoms(h)],
     cursor_position |-> LastArg(h, "set_cursor"),
     target |-> LastArg(h, "target"),
     label |-> LastArg(h, "label")]

GivenLabel == [label |-> assist.label, id |-> assist.id]
IsReturned(m) == runs[m].status = "returned"
IsPanicked(m) == runs[m].status = "panicked"
IsFinished(m) == runs[m].status # "not_run"
\* the Assist a run returned
AssistOf(m) == runs[m].value[1]
IsUnresolved(m) == IsReturned(m) /\ runs[m].value # <<>> /\ AssistOf(m).tag = "Unresolved"
IsResolved(m) == IsReturned(m) /\ runs[m].value # <<>> /\ AssistOf(m).tag = "Resolved"
IsSingle(m) == IsResolved(m) /\ AssistOf(m).assist.action_data.tag = "Left"
IsGroup(m) == IsResolved(m) /\ AssistOf(m).assist.action_data.tag = "Right"
DataOf(m) == AssistOf(m).assist.action_data.value

\* every Action the finished compute run built, with the calls made on its builder
BuiltActions ==
    IF IsSingle(TRUE) THEN {[action |-> DataOf(TRUE), calls |-> hist]}
    ELSE IF IsGroup(TRUE) /\ Len(DataOf(TRUE)) = Len(hists)
    THEN {[action |-> DataOf(TRUE)[i], calls |-> hists[i]] : i \in 1..Len(hists)}
    ELSE {}

----------------------------------------------------------------------------
(* C1: in check-only mode add_assist and add_assist_group return            *)
(* Some(Unresolved) with the given id and label, the callback is never     *)
(* invoked and no ActionBuilder is built; a run that returns, in either    *)
(* mode, returns Some and never None.                                      *)
C1_CheckOnlyUnresolved ==
    /\ IsReturned(FALSE) =>
          /\ IsUnresolved(FALSE)
          /\ AssistOf(FALSE).label = GivenLabel
          /\ runs[FALSE].f_calls = 0
          /\ runs[FALSE].builds = 0
    /\ (~ctx.should_compute_edit /\ pc # "idle") =>
          pc = "ctx" /\ f_calls = 0 /\ builds = 0
    /\ \A m \in BOOLEAN : IsReturned(m) => runs[m].value # None

C1_Witness ==
    /\ assist.fn = "add_assist_group"
    /\ IsUnresolved(FALSE)
    /\ IsResolved(TRUE)

(* C2: in compute mode, with a label that passes the casing check,          *)
(* add_assist invokes the callback exactly once on a default-constructed   *)
(* builder, builds it exactly once and returns Resolved with the given     *)
(* label and a single Action holding the edit, cursor position, target and *)
(* label the callback recorded.                                            *)
C2_ComputeResolvedSingle ==
    /\ (pc = "in_f" /\ hist = <<>>) =>
          edit = [edit |-> <<>>, cursor_position |-> <<>>, target |-> <<>>, label |-> <<>>]
    /\ pc = "in_f" => f_calls = 1 /\ builds = 0
    /\ (assist.fn = "add_assist" /\ IsReturned(TRUE)) =>
          /\ runs[TRUE].f_calls = 1
          /\ runs[TRUE].builds = 1
          /\ IsSingle(TRUE)
          /\ AssistOf(TRUE).assist.label = GivenLabel
          /\ DataOf(TRUE) = RecordedAction(hist)

C2_Witness ==
    /\ assist.fn = "add_assist"
    /\ IsSingle(TRUE)
    /\ Len(DataOf(TRUE).edit.atoms) = 2
    /\ DataOf(TRUE).edit.atoms[1] # DataOf(TRUE).edit.atoms[2]

(* C3: every Result returned by add_assist or add_assist_group, in either   *)
(* mode, carries a label whose first character is uppercase, and a         *)
(* registration with a lowercase-first label stops at the contract check,  *)
(* before the callback runs and without returning a Result.                *)
C3_LabelUppercase ==
    \A m \in BOOLEAN :
        /\ IsReturned(m) =>
              Len(assist.label) > 0 /\ assist.label[1] \in UppercaseChars
        /\ (IsFinished(m) /\ Len(assist.label) > 0 /\ assist.label[1] \notin UppercaseChars) =>
              IsPanicked(m) /\ runs[m].f_calls = 0

(* C4 as stated: a Resolved result of add_assist_group holds at least one   *)
(* Action, and a call of add_assist_group whose callback produces an empty *)
(* sequence stops at the contract check instead of returning a Result.     *)
C4_Original ==
    \A m \in BOOLEAN :
        /\ (assist.fn = "add_assist_group" /\ IsResolved(m)) =>
              IsGroup(m) /\ Len(DataOf(m)) >= 1
        /\ (assist.fn = "add_assist_group" /\ assist.n = 0 /\ IsFinished(m)) =>
              IsPanicked(m)

(* C4 amended: a Resolved result of add_assist_group holds at least one     *)
(* Action; in compute mode a callback that produces an empty sequence      *)
(* stops the call at the contract check; in check-only mode the callback   *)
(* is not run and the call returns Unresolved.                             *)
C4_GroupNonEmpty ==
    /\ \A m \in BOOLEAN :
          (assist.fn = "add_assist_group" /\ IsResolved(m)) =>
              IsGroup(m) /\ Len(DataOf(m)) >= 1
    /\ (assist.fn = "add_assist_group" /\ assist.n = 0 /\ IsFinished(TRUE)) =>
          IsPanicked(TRUE) /\ runs[TRUE].value = None /\ runs[TRUE].builds = 0
    /\ (assist.fn = "add_assist_group" /\ assist.n = 0 /\ IsFinished(FALSE)) =>
          IsUnresolved(FALSE)

C4_Witness ==
    /\ assist.fn = "add_assist_group"
    /\ assist.n = 0
    /\ IsUnresolved(FALSE)
    /\ IsPanicked(TRUE)
    /\ runs[TRUE].f_calls = 1

\* both runs agree: a Result with the same id and label from each, or from neither
SameVerdict ==
    \/ /\ IsUnresolved(FALSE)
       /\ IsResolved(TRUE)
       /\ AssistOf(FALSE).label = GivenLabel
       /\ AssistOf(TRUE).assist.label = GivenLabel
    \/ IsPanicked(FALSE) /\ IsPanicked(TRUE)

(* C5 as stated: the check-only run and then the compute run of the same    *)
(* registration either both return a Result with the same id and label     *)
(* (Unresolved, then Resolved) or neither returns one.                     *)
C5_Original ==
    (IsFinished(FALSE) /\ IsFinished(TRUE)) => SameVerdict

(* C5 amended: the two runs agree, except for add_assist_group with a       *)
(* callback that produces an empty sequence, where the check-only run      *)
(* returns Unresolved with the given id and label and the compute run      *)
(* stops at the contract check.                                            *)
C5_SameVerdict ==
    (IsFinished(FALSE) /\ IsFinished(TRUE)) =>
        IF assist.fn = "add_assist_group" /\ assist.n = 0
        THEN /\ IsUnresolved(FALSE)
             /\ AssistOf(FALSE).label = GivenLabel
             /\ IsPanicked(TRUE)
        ELSE SameVerdict

C5_Witness ==
    /\ assist.fn = "add_assist"
    /\ IsPanicked(FALSE)
    /\ IsPanicked(TRUE)

C7_CursorLastWriteWins ==
    /\ \A b \in BuiltActions :
          b.action.cursor_position = LastArg(b.calls, "set_cursor")
    /\ pc \in {"in_f", "in_group_builder"} =>
          edit.cursor_position = LastArg(hist, "set_cursor")

C7_Witness ==
    \E b \in BuiltActions :
        /\ Len(b.calls) = 2
        /\ b.calls[1].op = "set_cursor"
        /\ b.calls[2].op = "set_cursor"
        /\ b.calls[1].offset # b.calls[2].offset
        /\ b.action.cursor_position = <<b.calls[2].offset>>

\* the last call on the builder being populated
LastCall == hist[Len(hist)]

(* C8: replace_node_and_indent(node, T) appends exactly one replace         *)
(* operation over the node's range; with a leading indent I its text is T  *)
(* with every line after the first prefixed by I, and without one it is T. *)
C8_ReplaceNodeAndIndent ==
    (hist # <<>> /\ LastCall.op = "replace_node_and_indent") =>
        LET I == leading_indent(LastCall.node)
            T == LastCall.text
            n == Len(before.edit)
        IN  /\ Len(edit.edit) = n + 1
            /\ SubSeq(edit.edit, 1, n) = before.edit
            /\ edit.edit[n + 1].delete = LastCall.node.range
            /\ I = None => edit.edit[n + 1].insert = T
            /\ I # None =>
                  /\ edit.edit[n + 1].insert = reindent(T, I[1])
                  /\ Len(edit.edit[n + 1].insert) = Len(T)
                  /\ edit.edit[n + 1].insert[1] = T[1]
                  /\ \A i \in 2..Len(T) : edit.edit[n + 1].insert[i] = I[1] \o T[i]

C8_Witness ==
    /\ hist # <<>>
    /\ LastCall.op = "replace_node_and_indent"
    /\ leading_indent(LastCall.node) = <<"  ">>
    /\ Len(LastCall.text) = 3
    /\ edit.edit[Len(edit.edit)].insert = <<"{", "    y", "  }">>

(* C9: in compute mode, when the add_assist_group callback returns n >= 1   *)
(* builders, the callback was invoked exactly once and the Resolved        *)
(* result's group holds exactly n Actions, the i-th being the build of the *)
(* i-th builder.                                                           *)
C9_GroupInOrder ==
    (assist.fn = "add_assist_group" /\ assist.n >= 1 /\ IsFinished(TRUE)) =>
        /\ IsGroup(TRUE)
        /\ AssistOf(TRUE).assist.label = GivenLabel
        /\ runs[TRUE].f_calls = 1
        /\ runs[TRUE].builds = assist.n
        /\ Len(actions) = assist.n
        /\ Len(DataOf(TRUE)) = assist.n
        /\ \A i \in 1..assist.n :
              /\ DataOf(TRUE)[i].edit = [atoms |-> actions[i].edit]
              /\ DataOf(TRUE)[i].cursor_position = actions[i].cursor_position
              /\ DataOf(TRUE)[i].target = actions[i].target
              /\ DataOf(TRUE)[i].label = actions[i].label

C9_Witness ==
    /\ assist.fn = "add_assist_group"
    /\ IsGroup(TRUE)
    /\ Len(DataOf(TRUE)) = 2
    /\ DataOf(TRUE)[1] # DataOf(TRUE)[2]

EditCalls == {"replace", "insert", "delete", "replace_node_and_indent", "replace_ast"}

(* C10: set_cursor, target and label each change only their own field;      *)
(* replace, insert, delete, replace_node_and_indent and replace_ast leave  *)
(* cursor position, target and label unchanged; label on a builder never   *)
(* changes the label of the enclosing Result; build copies the four fields *)
(* into the Action unchanged.                                              *)
C10_Frame ==
    /\ hist # <<>> =>
          /\ LastCall.op = "set_cursor" =>
                /\ edit.edit = before.edit
                /\ edit.target = before.target
                /\ edit.label = before.label
          /\ LastCall.op = "target" =>
                /\ edit.edit = before.edit
                /\ edit.cursor_position = before.cursor_position
                /\ edit.label = before.label
          /\ LastCall.op = "label" =>
                /\ edit.edit = before.edit
                /\ edit.cursor_position = before.cursor_position
                /\ edit.target = before.target
          /\ LastCall.op \in EditCalls =>
                /\ edit.cursor_position = before.cursor_position
                /\ edit.target = before.target
                /\ edit.label = before.label
    /\ IsSingle(TRUE) =>
          /\ DataOf(TRUE).edit.atoms = edit.edit
          /\ DataOf(TRUE).cursor_position = edit.cursor_position
          /\ DataOf(TRUE).target = edit.target
          /\ DataOf(TRUE).label = edit.label
    /\ IsResolved(TRUE) => AssistOf(TRUE).assist.label.label = assist.label

C10_Witness ==
    /\ IsSingle(TRUE)
    /\ Len(hist) = 2
    /\ hist[1].op = "set_cursor"
    /\ hist[2].op = "label"
    /\ DataOf(TRUE).label # <<>>
    /\ DataOf(TRUE).label # <<assist.label>>
    /\ DataOf(TRUE).cursor_position # <<>>

====
